---- MODULE Spec2Model ----
(***************************************************************************)
(* Notification dispatch core of the ticketing application.                *)
(*                                                                         *)
(*   app/notifications_core.py   notify_assigned_user, the three senders,  *)
(*                               test_smtp_connection                      *)
(*   utils/context_runner.py     run_in_app_context (daemon threads)       *)
(*   routes/tickets.py           create_ticket, update_assigned_to,        *)
(*                               update_status, update_priority,           *)
(*                               add_comment                               *)
(*   routes/users.py             edit_user                                 *)
(*   routes/profile.py           profile (test notifications)              *)
(*   routes/settings_routes.py   system_settings                           *)
(*   app/api.py                  api_update_ticket, webhook_create_ticket  *)
(*                                                                         *)
(* The tickets, users and settings tables are variables.  A call of        *)
(* notify_assigned_user is a record with a program counter: its two        *)
(* SELECTs are separate steps, so the writes of the routes interleave with *)
(* them; what follows the second SELECT touches only locals and starts     *)
(* threads, and is one step.  Every thread started through                 *)
(* run_in_app_context for a sender is an entry of `threads'; a sender      *)
(* runs in two steps, its checks and its network exchange.                 *)
(*                                                                         *)
(*   Spec      the dispatcher against the writes of the routes             *)
(*   SpecTrig  the ticket handlers as requests that start the dispatcher   *)
(*   SpecSend  the sender threads, started by the profile form, against    *)
(*             saves of the settings form                                  *)
(*   SpecSmtp  test_smtp_connection against saves of the settings form     *)
(*   SpecEvents    every event trigger, each tagged with what it wrote,    *)
(*                 against the dispatcher threads and the user form        *)
(*   SpecFrame     dispatcher, senders and the routes that write a table   *)
(*   SpecSendLive  SpecSend with fair sender threads and interpreter exit  *)
(*   SpecMail      the mail sender under every TLS and login setting       *)
(***************************************************************************)
EXTENDS Integers, Sequences, FiniteSets, TLC

\* ------------------------------------------------------------------ bounds
\* Cap on the sender threads alive at once.
MaxThreads == 3

\* Cap on the sender threads the profile form starts in one behaviour.
MaxSends == 2

\* ------------------------------------------------------------ value spaces
\* Python None / SQL NULL in an id-valued place (ids start at 1).
NoId == 0

\* SQL NULL in a text column.
Null == "<NULL>"

\* No row returned by fetchone, and "no call" / "no record" in general.
NoRow == <<>>

UserIds == {1, 2}

TicketIds == {1}

\* The event types the triggers pass (routes/tickets.py 110, 254, 295, 327,
\* 358; app/api.py 271, 369) and one value no trigger passes.
EventTypes ==
  {"assigned", "assigned_on_creation", "status_update", "priority_update",
   "new_comment", "bogus_value"}

Channels == {"pushover", "email", "apprise"}

\* Python truthiness of an integer column and of a text column.
TruthyInt(v) == v # 0

TruthyStr(s) == s \notin {Null, ""}

\* A row of the users table restricted to the columns the SELECT of
\* notify_assigned_user reads.
UserRow(id, ne, em, np, pk, pt, na, au) ==
  [id |-> id, notify_email |-> ne, email |-> em,
   notify_pushover |-> np, pushover_user_key |-> pk, pushover_api_token |-> pt,
   notify_apprise |-> na, apprise_url |-> au]

\* Column defaults of CREATE TABLE users: flags 0, contact columns NULL.
DefaultUser(id) == UserRow(id, 0, Null, 0, Null, Null, 0, Null)

\* What the user forms can store for user id: every flag value appears with
\* its credentials present and missing, one credential at a time for push.
Profiles(id) ==
  { UserRow(id, 1, "a@x.io", 1, "ukey", "tok", 1, "json://h"),
    UserRow(id, 0, "a@x.io", 0, "ukey", "tok", 0, "json://h"),
    UserRow(id, 1, "",       1, "",     "",    1, ""),
    UserRow(id, 0, "",       1, "ukey", "tok", 0, ""),
    UserRow(id, 1, "a@x.io", 1, "ukey", "",    0, "json://h"),
    UserRow(id, 0, "a@x.io", 1, "",     "tok", 1, "json://h") }

\* A row of the tickets table restricted to the columns the SELECT of
\* notify_assigned_user reads (the title is never varied).
TicketRow(id, assigned_to, status, priority) ==
  [id |-> id, assigned_to |-> assigned_to, status |-> status,
   priority |-> priority]

\* A key with no row in the settings table.
Absent == "<ABSENT>"

\* The keys of the settings table the mail code reads.
SettingKeys ==
  {"smtp_server", "smtp_port", "smtp_from_email", "smtp_username",
   "smtp_password", "smtp_use_tls"}

\* app/settings_loader.py DEFAULT_SETTINGS, the mail keys.
DEFAULT_SETTINGS ==
  [k \in SettingKeys |->
     CASE k = "smtp_server" -> "localhost"
       [] k = "smtp_port" -> "587"
       [] k = "smtp_from_email" -> "noreply@example.com"
       [] k = "smtp_username" -> ""
       [] k = "smtp_password" -> ""
       [] k = "smtp_use_tls" -> "1"]

VARIABLES
  tickets,   \* tickets table: id -> row, NoRow where no row exists
  users,     \* users table: id -> row
  call,      \* the notify_assigned_user call being followed, or NoRow
  previous,  \* the returned call that `call' repeats, or NoRow
  threads,   \* sender threads started through run_in_app_context
  settings,  \* settings table: key -> value, Absent where no row exists
  request,   \* the HTTP request being followed, or NoRow
  smtp       \* the test_smtp_connection call being followed, or NoRow

vars == <<tickets, users, call, previous, threads, settings, request, smtp>>

\* What notify_assigned_user and the routes that lead to it never write.
sendvars == <<settings, request, smtp>>

\* ------------------------------------------------- notifications_core.py


\* Names bound in the module namespace of app/notifications_core.py: the
\* imports and the five functions it defines.
module_globals ==
  {"smtplib", "MIMEText", "requests", "Apprise", "db_manager",
   "run_in_app_context", "current_app",
   "send_email_notification", "send_pushover_notification",
   "send_apprise_notification", "notify_assigned_user",
   "test_smtp_connection"}

\* Evaluating a global name that is not bound raises NameError.
NameDefined(n) == n \in module_globals

KnownEvents ==
  {"assigned", "assigned_on_creation", "status_update", "priority_update",
   "new_comment"}

\* The f-strings of the subject, as the tuple of their pieces.
Subject(event_type, ticket_id) ==
  CASE event_type \in {"assigned", "assigned_on_creation"} ->
         <<"Ticket #", ticket_id, " Has Been Assigned To You">>
    [] event_type = "status_update" ->
         <<"Status Update on Ticket #", ticket_id>>
    [] event_type = "priority_update" ->
         <<"Priority Update on Ticket #", ticket_id>>
    [] event_type = "new_comment" ->
         <<"New Comment on Ticket #", ticket_id>>
    [] OTHER -> <<>>

\* The f-strings of the body: the piece that varies is the ticket column
\* the template quotes (status or priority of the row read at line 186).
MessageBody(event_type, ticket_id, ticket) ==
  CASE event_type \in {"assigned", "assigned_on_creation"} ->
         <<"You have been assigned to ticket #", ticket_id>>
    [] event_type = "status_update" ->
         <<"The status of ticket #", ticket_id, ticket.status>>
    [] event_type = "priority_update" ->
         <<"The priority of ticket #", ticket_id, ticket.priority>>
    [] event_type = "new_comment" ->
         <<"A new comment has been added to ticket #", ticket_id>>
    [] OTHER -> <<>>

\* Variant: an event without a triggering user counts as the assignee's own.
SelfNotification_NullIsSelf(triggering_user_id, assigned_user_id) ==
  triggering_user_id = NoId \/ triggering_user_id = assigned_user_id

\* Line 213.
SelfNotification(triggering_user_id, assigned_user_id) ==
  triggering_user_id # NoId /\ triggering_user_id = assigned_user_id

\* Lines 250, 258, 265: the guard of each channel.
ChannelEnabled(ch, u) ==
  CASE ch = "pushover" ->
         TruthyInt(u.notify_pushover) /\ TruthyStr(u.pushover_user_key)
           /\ TruthyStr(u.pushover_api_token)
    [] ch = "email" -> TruthyInt(u.notify_email) /\ TruthyStr(u.email)
    [] ch = "apprise" -> TruthyInt(u.notify_apprise) /\ TruthyStr(u.apprise_url)

\* The thread run_in_app_context starts for one channel: the sender and
\* the arguments handed to it.
SenderCall(ch, u, subject, body) ==
  CASE ch = "pushover" ->
         [fn |-> "pushover",
          to |-> <<u.pushover_user_key, u.pushover_api_token>>,
          title |-> subject, body |-> body]
    [] ch = "email" ->
         [fn |-> "email", to |-> <<u.email>>, title |-> subject, body |-> body]
    [] ch = "apprise" ->
         [fn |-> "apprise", to |-> <<u.apprise_url>>,
          title |-> subject, body |-> body]

\* Lines 249-270: the three `if' blocks in source order.
QueueFor(u, subject, body) ==
  (IF ChannelEnabled("pushover", u)
     THEN <<SenderCall("pushover", u, subject, body)>> ELSE <<>>)
  \o (IF ChannelEnabled("email", u)
        THEN <<SenderCall("email", u, subject, body)>> ELSE <<>>)
  \o (IF ChannelEnabled("apprise", u)
        THEN <<SenderCall("apprise", u, subject, body)>> ELSE <<>>)

\* --------------------------------------------- notify_assigned_user, steps

\* A call of notify_assigned_user at its first statement.  `ticket' and
\* `assigned_user' are the locals of the same names, `queued' the sender
\* calls handed to run_in_app_context, `log' the records written to the
\* logger (level and source line), `raised' whether an exception left the
\* function.
NewCall(ticket_id, event_type, triggering_user_id) ==
  [ticket_id |-> ticket_id, event_type |-> event_type,
   triggering_user_id |-> triggering_user_id,
   pc |-> "fetch_ticket", ticket |-> NoRow, assigned_user |-> NoRow,
   queued |-> <<>>, log |-> <<>>, raised |-> FALSE]

LogRecord(level, line) == [level |-> level, line |-> line]

\* A logger call followed by `return'.
LogAndReturn(d, level, line) ==
  [d EXCEPT !.pc = "returned", !.log = Append(@, LogRecord(level, line))]

\* Variant: the handler logs and re-raises (the alternative its comment at
\* line 277 names).
ExceptHandler_Reraise(d) ==
  [d EXCEPT !.pc = "returned", !.log = Append(@, LogRecord("error", 273)),
            !.raised = TRUE]

\* Lines 271-278: `except Exception' logs the error and falls off the end
\* of the function.
ExceptHandler(d) ==
  [d EXCEPT !.pc = "returned", !.log = Append(@, LogRecord("error", 273)),
            !.raised = FALSE]

\* Variant: a ticket nobody is assigned to is announced to a fallback
\* mailbox instead of being skipped.
AfterTicketFetch_Fallback(d, row, ok) ==
  IF ~ok THEN ExceptHandler(d)
  ELSE IF row = NoRow THEN LogAndReturn(d, "warning", 188)
  ELSE IF ~TruthyInt(row.assigned_to)
    THEN [d EXCEPT !.ticket = row, !.pc = "returned",
                   !.queued = <<[fn |-> "email", to |-> <<"admin@x.io">>,
                                 title |-> Subject(d.event_type, d.ticket_id),
                                 body |-> MessageBody(d.event_type, d.ticket_id, row)]>>]
  ELSE [d EXCEPT !.ticket = row, !.pc = "fetch_user"]

\* Lines 184-192.  row is what the SELECT on tickets returns, ok is FALSE
\* when db_manager.fetchone raises.
AfterTicketFetch(d, row, ok) ==
  IF ~ok THEN ExceptHandler(d)
  ELSE IF row = NoRow THEN LogAndReturn(d, "warning", 188)
  ELSE IF ~TruthyInt(row.assigned_to)
    THEN LogAndReturn([d EXCEPT !.ticket = row], "info", 191)
  ELSE [d EXCEPT !.ticket = row, !.pc = "fetch_user"]

\* The info records of lines 242, 251, 259 and 266 for a queue.
QueueLog(queue) ==
  <<LogRecord("info", 242)>>
  \o [i \in 1..Len(queue) |->
        LogRecord("info", CASE queue[i].fn = "pushover" -> 251
                            [] queue[i].fn = "email" -> 259
                            [] queue[i].fn = "apprise" -> 266)]

\* Lines 195-270 as they run once the name of line 224 resolves, with the
\* self check and the queue left open: the common part of the variants.
Dispatching(d, row, ok, suppress, queue) ==
  IF ~ok THEN ExceptHandler(d)
  ELSE IF row = NoRow THEN LogAndReturn(d, "warning", 202)
  ELSE
    LET d1 == [d EXCEPT !.assigned_user = row]
    IN IF suppress THEN LogAndReturn(d1, "info", 214)
       ELSE IF d.event_type \notin KnownEvents
         THEN LogAndReturn(d1, "warning", 239)
       ELSE [d1 EXCEPT !.pc = "returned", !.queued = queue,
                       !.log = @ \o QueueLog(queue)]

\* Variant: lines 212-224 dropped (no self check, no link).
AfterUserFetch_NoSelfCheck(d, row, ok) ==
  Dispatching(d, row, ok, FALSE,
              QueueFor(row, Subject(d.event_type, d.ticket_id),
                       MessageBody(d.event_type, d.ticket_id, d.ticket)))

\* Variant: link resolved, channels chosen by the flags alone.
AfterUserFetch_FlagsOnly(d, row, ok) ==
  LET subject == Subject(d.event_type, d.ticket_id)
      body == MessageBody(d.event_type, d.ticket_id, d.ticket)
      flag == [ch \in Channels |->
                 CASE ch = "pushover" -> row.notify_pushover
                   [] ch = "email" -> row.notify_email
                   [] ch = "apprise" -> row.notify_apprise]
      one(ch) == IF TruthyInt(flag[ch])
                   THEN <<SenderCall(ch, row, subject, body)>> ELSE <<>>
  IN Dispatching(d, row, ok,
                 SelfNotification(d.triggering_user_id, row.id),
                 one("pushover") \o one("email") \o one("apprise"))

\* Variant: link resolved, and the mail block pasted a second time in place
\* of being edited into the gateway block.
AfterUserFetch_MailTwice(d, row, ok) ==
  LET subject == Subject(d.event_type, d.ticket_id)
      body == MessageBody(d.event_type, d.ticket_id, d.ticket)
      one(ch) == IF ChannelEnabled(ch, row)
                   THEN <<SenderCall(ch, row, subject, body)>> ELSE <<>>
  IN Dispatching(d, row, ok,
                 SelfNotification(d.triggering_user_id, row.id),
                 one("pushover") \o one("email") \o one("email"))

\* Lines 195-270.  row is what the SELECT on users returns, ok is FALSE
\* when db_manager.fetchone raises.  The name url_for is looked up at line
\* 224, before the event type is examined.
AfterUserFetch(d, row, ok) ==
  IF ~ok THEN ExceptHandler(d)
  ELSE IF row = NoRow THEN LogAndReturn(d, "warning", 202)
  ELSE
    LET d1 == [d EXCEPT !.assigned_user = row]
        subject == Subject(d.event_type, d.ticket_id)
        message_body == MessageBody(d.event_type, d.ticket_id, d.ticket)
        queue == QueueFor(row, subject, message_body)
    IN IF SelfNotification(d.triggering_user_id, row.id)
         THEN LogAndReturn(d1, "info", 214)
       ELSE IF ~NameDefined("url_for") THEN ExceptHandler(d1)
       ELSE IF d.event_type \notin KnownEvents
         THEN LogAndReturn(d1, "warning", 239)
       ELSE [d1 EXCEPT !.pc = "returned", !.queued = queue,
                       !.log = @ \o QueueLog(queue)]

\* ------------------------------------------------------------------ state

InFlight == call # NoRow /\ call.pc # "returned"

\* utils/context_runner.py 56-82: the thread run_in_app_context starts for a
\* sender call, at the first statement of wrapped_target.  `settings_read'
\* is the local `settings' of send_email_notification and `mail' its other
\* locals, `reads' the tables the thread has selected from, `ops' the
\* network operations attempted, `log' the records written to the logger,
\* `raised' whether an exception left the sender, `uncaught' whether one
\* left wrapped_target.
NewThread(sender_call, origin) ==
  [fn |-> sender_call.fn, args |-> sender_call, origin |-> origin,
   pc |-> "start", settings_read |-> NoRow, mail |-> NoRow, reads |-> {},
   ops |-> <<>>, log |-> <<>>, raised |-> FALSE, uncaught |-> FALSE]

\* utils/context_runner.py 78-82: a daemon thread per queued sender call,
\* tagged with the call that started it.
ThreadsFor(d) ==
  [i \in 1..Len(d.queued) |->
     NewThread(d.queued[i],
               <<d.ticket_id, d.event_type, d.triggering_user_id>>)]

\* State after construction: app/db.py creates the tables; two users exist
\* with the column defaults, no ticket exists, nothing runs.
Init ==
  /\ tickets = [t \in TicketIds |-> NoRow]
  /\ users = [u \in UserIds |-> DefaultUser(u)]
  /\ call = NoRow
  /\ previous = NoRow
  /\ threads = <<>>
  /\ settings = DEFAULT_SETTINGS
  /\ request = NoRow
  /\ smtp = NoRow

\* The rows a returned call read are the rows of the tables tk and us.
ReadRowsCurrent(d, tk, us) ==
  /\ d.ticket = tk[d.ticket_id]
  /\ d.ticket # NoRow
  /\ TruthyInt(d.ticket.assigned_to) => d.assigned_user = us[d.ticket.assigned_to]

\* run_in_app_context(app, notify_assigned_user, ticket_id, event_type,
\* triggering_user_id) as the triggers call it: a thread starts at the first
\* statement of notify_assigned_user.  One call is followed at a time: a
\* thread started while another call is in flight runs the same code and is
\* not followed.  When the new call repeats the arguments of the one that
\* just returned and the records that one read are unchanged in the tables
\* tk and us, that one is kept for comparison.
Spawn(ticket_id, event_type, triggering_user_id, tk, us) ==
  IF ~InFlight /\ Len(threads) <= MaxThreads
    THEN /\ call' = NewCall(ticket_id, event_type, triggering_user_id)
         /\ previous' =
              IF call # NoRow
                 /\ call.ticket_id = ticket_id /\ call.event_type = event_type
                 /\ call.triggering_user_id = triggering_user_id
                 /\ ReadRowsCurrent(call, tk, us)
                THEN call ELSE NoRow
    ELSE UNCHANGED <<call, previous>>

\* Any caller starting notify_assigned_user with any arguments (the
\* triggers modelled below are instances of it).
StartCall(ticket_id, event_type, triggering_user_id) ==
  /\ ~InFlight
  /\ Spawn(ticket_id, event_type, triggering_user_id, tickets, users)
  /\ UNCHANGED <<tickets, users, threads>>
  /\ UNCHANGED sendvars

\* SELECT ... FROM tickets WHERE id = ? and SELECT ... FROM users WHERE
\* id = ? : the row with that key, or no row.
SelectTicket(id) == IF id \in DOMAIN tickets THEN tickets[id] ELSE NoRow

SelectUser(id) == IF id \in DOMAIN users THEN users[id] ELSE NoRow

\* notify_assigned_user, lines 184-192.
FetchTicket ==
  /\ call # NoRow /\ call.pc = "fetch_ticket"
  /\ \E ok \in BOOLEAN :
       call' = AfterTicketFetch(call, SelectTicket(call.ticket_id), ok)
  /\ UNCHANGED <<tickets, users, previous, threads>>
  /\ UNCHANGED sendvars

\* notify_assigned_user, lines 195-278.
FetchUser ==
  /\ call # NoRow /\ call.pc = "fetch_user"
  /\ \E ok \in BOOLEAN :
       call' = AfterUserFetch(call, SelectUser(call.ticket.assigned_to), ok)
  /\ threads' = threads \o ThreadsFor(call')
  /\ UNCHANGED <<tickets, users, previous>>
  /\ UNCHANGED sendvars

\* routes/tickets.py create_ticket (POST): the INSERT with the column
\* defaults, then the notification when the form names an assignee.
create_ticket(t, assigned_to, current_user_id) ==
  /\ tickets[t] = NoRow
  /\ tickets' = [tickets EXCEPT ![t] = TicketRow(t, assigned_to, "open", "medium")]
  /\ IF TruthyInt(assigned_to)
       THEN Spawn(t, "assigned_on_creation", current_user_id, tickets', users)
       ELSE /\ previous' = NoRow
            /\ UNCHANGED call
  /\ UNCHANGED <<users, threads>>
  /\ UNCHANGED sendvars

\* routes/tickets.py update_assigned_to: the UPDATE (which changes nothing
\* when no row has the id), then the notification unless the form unassigns.
update_assigned_to(t, assigned_to, current_user_id) ==
  /\ tickets' = IF tickets[t] = NoRow THEN tickets
                ELSE [tickets EXCEPT ![t].assigned_to = assigned_to]
  /\ IF TruthyInt(assigned_to)
       THEN Spawn(t, "assigned", current_user_id, tickets', users)
       ELSE /\ previous' = NoRow
            /\ UNCHANGED call
  /\ UNCHANGED <<users, threads>>
  /\ UNCHANGED sendvars

\* routes/users.py edit_user: the UPDATE of the notification columns.
edit_user(u, row) ==
  /\ users[u] # row
  /\ users' = [users EXCEPT ![u] = row]
  /\ previous' = NoRow
  /\ UNCHANGED <<tickets, call, threads>>
  /\ UNCHANGED sendvars

Next ==
  \/ \E t \in TicketIds, e \in EventTypes, by \in UserIds \cup {NoId} :
       StartCall(t, e, by)
  \/ FetchTicket
  \/ FetchUser
  \/ \E t \in TicketIds, a \in UserIds \cup {NoId}, by \in UserIds :
       create_ticket(t, a, by)
  \/ \E t \in TicketIds, a \in UserIds \cup {NoId}, by \in UserIds :
       update_assigned_to(t, a, by)
  \/ \E u \in UserIds : \E row \in Profiles(u) \cup {DefaultUser(u)} :
       edit_user(u, row)

Spec == Init /\ [][Next]_vars

\* ------------------------------------------------ the three channel senders

\* dict.get(key, default) on the dict built from the rows of the table.
Get(table, key, default) ==
  IF table[key] = Absent THEN default ELSE table[key]

\* int(smtp_port_str); -1 stands for ValueError.
ParsePort(s) ==
  CASE s = "587" -> 587
    [] s = "25" -> 25
    [] s = "465" -> 465
    [] OTHER -> -1

\* Variant: the mail settings come from the values the application started
\* with, not from the table.
LoadSettings_Startup(table) == DEFAULT_SETTINGS

\* Lines 32-33 (and 298-299): SELECT key, value FROM settings, as a dict.
LoadSettings(table) == [k \in SettingKeys |-> table[k]]

\* Variant: an absent from-address key counts as unset, like the host.
MailLocals_NoFromDefault(st) ==
  [smtp_server |-> Get(st, "smtp_server", Null),
   smtp_port_str |-> Get(st, "smtp_port", "587"),
   smtp_user |-> Get(st, "smtp_username", ""),
   smtp_password |-> Get(st, "smtp_password", ""),
   from_email |-> Get(st, "smtp_from_email", Null),
   use_tls |-> Get(st, "smtp_use_tls", "0") = "1"]

\* Lines 39-44: the locals of send_email_notification read from the dict.
MailLocals(st) ==
  [smtp_server |-> Get(st, "smtp_server", Null),
   smtp_port_str |-> Get(st, "smtp_port", "587"),
   smtp_user |-> Get(st, "smtp_username", ""),
   smtp_password |-> Get(st, "smtp_password", ""),
   from_email |-> Get(st, "smtp_from_email", "no-reply@example.com"),
   use_tls |-> Get(st, "smtp_use_tls", "0") = "1"]

\* Variant: only the from-address is checked before connecting.
MailConfigured_FromOnly(m) == TruthyStr(m.from_email)

\* Line 64, negated: host and from-address are both truthy.
MailConfigured(m) == TruthyStr(m.smtp_server) /\ TruthyStr(m.from_email)

\* One network operation and its arguments.
NetOp(op, arg) == [op |-> op, arg |-> arg]

\* Variant: the login is sent before the channel is upgraded.
MailPlan_LoginBeforeTls(m, th) ==
  <<NetOp("connect", <<m.smtp_server, m.smtp_port>>)>>
  \o (IF TruthyStr(m.smtp_user) /\ TruthyStr(m.smtp_password)
        THEN <<NetOp("login", <<m.smtp_user, m.smtp_password>>)>> ELSE <<>>)
  \o (IF m.use_tls THEN <<NetOp("starttls", <<>>)>> ELSE <<>>)
  \o <<NetOp("send_message",
             <<m.from_email, th.args.to[1], th.args.title, th.args.body>>),
       NetOp("quit", <<>>)>>

\* Lines 79-84 and the exit of the `with' block: the SMTP operations of one
\* send, in order.
MailPlan(m, th) ==
  <<NetOp("connect", <<m.smtp_server, m.smtp_port>>)>>
  \o (IF m.use_tls THEN <<NetOp("starttls", <<>>)>> ELSE <<>>)
  \o (IF TruthyStr(m.smtp_user) /\ TruthyStr(m.smtp_password)
        THEN <<NetOp("login", <<m.smtp_user, m.smtp_password>>)>> ELSE <<>>)
  \o <<NetOp("send_message",
             <<m.from_email, th.args.to[1], th.args.title, th.args.body>>),
       NetOp("quit", <<>>)>>

\* The first k operations of a plan: what was attempted when the k-th
\* raised.  k = 0: none raised, all were carried out.
Attempted(plan, k) == IF k = 0 THEN plan ELSE SubSeq(plan, 1, k)

\* Lines 46-51: the port as a number, 587 for a string that is none.
MailPort(m0) ==
  IF ParsePort(m0.smtp_port_str) = -1 THEN 587 ELSE ParsePort(m0.smtp_port_str)

\* The locals at line 54: smtp_port in place of smtp_port_str.
MailLocalsParsed(m0) ==
  [smtp_server |-> m0.smtp_server, smtp_port |-> MailPort(m0),
   smtp_user |-> m0.smtp_user, smtp_password |-> m0.smtp_password,
   from_email |-> m0.from_email, use_tls |-> m0.use_tls]

\* Variant: the sender looks the recipient up again in the users table.
send_email_notification_RereadsUser(th, table, ok) ==
  IF ~ok
    THEN [th EXCEPT !.pc = "done", !.log = Append(@, LogRecord("error", 35))]
  ELSE
    LET st == LoadSettings(table)
        m0 == MailLocals(st)
        m == MailLocalsParsed(m0)
        log1 == IF ParsePort(m0.smtp_port_str) = -1
                  THEN <<LogRecord("error", 49)>> ELSE <<>>
        th1 == [th EXCEPT !.settings_read = st, !.mail = m,
                          !.reads = {"settings", "users"},
                          !.args.to = <<users[th.origin[2]].email>>,
                          !.log = @ \o log1]
    IN IF ~MailConfigured(m)
         THEN [th1 EXCEPT !.pc = "done",
                          !.log = Append(@, LogRecord("warning", 65))]
         ELSE [th1 EXCEPT !.pc = "io"]

\* send_email_notification, lines 29-69: up to the first network operation.
\* table is the settings table when the SELECT runs, ok is FALSE when
\* db_manager.fetchall raises.
send_email_notification(th, table, ok) ==
  IF ~ok
    THEN [th EXCEPT !.pc = "done", !.log = Append(@, LogRecord("error", 35))]
  ELSE
    LET st == LoadSettings(table)
        m0 == MailLocals(st)
        m == MailLocalsParsed(m0)
        log1 == IF ParsePort(m0.smtp_port_str) = -1
                  THEN <<LogRecord("error", 49)>> ELSE <<>>
        th1 == [th EXCEPT !.settings_read = st, !.mail = m,
                          !.reads = {"settings"}, !.log = @ \o log1]
    IN IF ~MailConfigured(m)
         THEN [th1 EXCEPT !.pc = "done",
                          !.log = Append(@, LogRecord("warning", 65))]
         ELSE [th1 EXCEPT !.pc = "io"]

\* send_email_notification, lines 71-88.  fail_at = k > 0: the k-th SMTP
\* operation raises.
send_email_delivery(th, fail_at) ==
  LET plan == MailPlan(th.mail, th)
  IN [th EXCEPT !.pc = "done", !.ops = Attempted(plan, fail_at),
                !.log = Append(@, IF fail_at = 0 THEN LogRecord("info", 86)
                                  ELSE LogRecord("error", 88))]

\* What requests.post followed by raise_for_status can do: a success
\* response, a 4xx/5xx response (HTTPError), a transport failure
\* (ConnectionError, Timeout: all RequestException), or an exception that
\* is no RequestException (OSError for a missing CA bundle).
PostOutcomes == {"ok", "http_error", "request_exception", "other_exception"}

\* send_pushover_notification, lines 100-108: up to the HTTP request.
send_pushover_notification(th) ==
  IF ~TruthyStr(th.args.to[1]) \/ ~TruthyStr(th.args.to[2])
    THEN [th EXCEPT !.pc = "done", !.log = Append(@, LogRecord("warning", 106))]
    ELSE [th EXCEPT !.pc = "io"]

\* Variant: the post is made without a timeout and the service never
\* answers.
send_pushover_delivery_NoTimeout(th, outcome) == th

\* Variant: the handler of line 119 catches Exception, like the other two
\* senders.
send_pushover_delivery_CatchAll(th, outcome) ==
  LET post == <<NetOp("post", <<th.args.to[2], th.args.to[1],
                                th.args.title, th.args.body>>)>>
  IN [th EXCEPT !.pc = "done", !.ops = post,
                !.log = Append(@, IF outcome = "ok" THEN LogRecord("info", 118)
                                  ELSE LogRecord("error", 121))]

\* send_pushover_notification, lines 109-121: `except
\* requests.RequestException' handles the HTTP error and the transport
\* failure; any other exception leaves the function.
send_pushover_delivery(th, outcome) ==
  LET post == <<NetOp("post", <<th.args.to[2], th.args.to[1],
                                th.args.title, th.args.body>>)>>
  IN CASE outcome = "ok" ->
            [th EXCEPT !.pc = "done", !.ops = post,
                       !.log = Append(@, LogRecord("info", 118))]
       [] outcome \in {"http_error", "request_exception"} ->
            [th EXCEPT !.pc = "done", !.ops = post,
                       !.log = Append(@, LogRecord("error", 121))]
       [] OTHER ->
            [th EXCEPT !.pc = "done", !.ops = post, !.raised = TRUE]

\* What Apprise().add and .notify can do: the URL is refused, the
\* notification is dispatched, no service accepted it, or an exception.
AppriseOutcomes == {"add_refused", "ok", "not_dispatched", "exception"}

\* send_apprise_notification, lines 132-139.
send_apprise_notification(th) ==
  IF ~TruthyStr(th.args.to[1])
    THEN [th EXCEPT !.pc = "done", !.log = Append(@, LogRecord("warning", 138))]
    ELSE [th EXCEPT !.pc = "io"]

\* send_apprise_notification, lines 141-159.
send_apprise_delivery(th, outcome) ==
  LET add == NetOp("add", <<th.args.to[1]>>)
      notify == NetOp("notify", <<th.args.title, th.args.body>>)
  IN CASE outcome = "add_refused" ->
            [th EXCEPT !.pc = "done", !.ops = <<add>>,
                       !.log = Append(@, LogRecord("error", 146))]
       [] outcome = "ok" ->
            [th EXCEPT !.pc = "done", !.ops = <<add, notify>>,
                       !.log = Append(@, LogRecord("info", 153))]
       [] outcome = "not_dispatched" ->
            [th EXCEPT !.pc = "done", !.ops = <<add, notify>>,
                       !.log = Append(@, LogRecord("warning", 156))]
       [] OTHER ->
            [th EXCEPT !.pc = "done", !.ops = <<add, notify>>,
                       !.log = Append(@, LogRecord("error", 159))]

\* Variant: wrapped_target calls the target without the try block.
wrapped_target_NoTry(th) ==
  IF th.raised THEN [th EXCEPT !.uncaught = TRUE] ELSE th

\* utils/context_runner.py 63-74: an exception that left the target is
\* logged (line 71) and goes no further.
wrapped_target(th) ==
  IF th.raised
    THEN [th EXCEPT !.log = Append(@, LogRecord("error", 71)),
                    !.uncaught = FALSE]
    ELSE th

\* ------------------------------------------------- requests and their steps

\* A request that called run_in_app_context.  `mutation' is the UPDATE the
\* handler committed (ticket, column, value), `started' the positions in
\* `threads' of the sender threads it started, `dispatcher' whether the
\* notify_assigned_user thread it started is the call being followed.
NewRequest(route, mutation, started, dispatcher) ==
  [route |-> route, mutation |-> mutation, started |-> started,
   dispatcher |-> dispatcher, pc |-> "in_runner", result |-> Null]

RequestBusy == request # NoRow /\ request.pc # "done"

\* Whether the background work a request started has ended.
BackgroundEnded(req) ==
  /\ \A i \in req.started : threads[i].pc = "done"
  /\ req.dispatcher => ~InFlight

\* Variant: run_in_app_context joins the thread it started.
StartReturns_Join(req) == BackgroundEnded(req)

\* utils/context_runner.py 80-82: thread.start() returns once the thread
\* runs; nothing waits for it to end.
StartReturns(req) == TRUE

\* Variant: the handler reports what the background work logged.
RouteResult_FromBackground(req) ==
  IF \/ \E i \in req.started :
          \E j \in 1..Len(threads[i].log) : threads[i].log[j].level = "error"
     \/ req.dispatcher /\ call # NoRow
          /\ \E j \in 1..Len(call.log) : call.log[j].level = "error"
    THEN "error" ELSE "success"

\* routes/tickets.py 114-115, 296-298, 328-330, 359-361 and
\* routes/profile.py 127-132: the success flash and the redirect that
\* follow the call of run_in_app_context.
RouteResult(req) == "success"

\* The rest of a handler after run_in_app_context.
RunnerReturn ==
  /\ RequestBusy
  /\ StartReturns(request)
  /\ request' = [request EXCEPT !.pc = "done", !.result = RouteResult(request)]
  /\ UNCHANGED <<tickets, users, call, previous, threads, settings, smtp>>

\* Whether Spawn follows the call it starts.
Followed == ~InFlight /\ Len(threads) <= MaxThreads

\* routes/tickets.py update_status, line 317.
allowed_statuses == {"open", "in progress", "closed", "pending", "resolved"}

\* app/db.py 101: CHECK(status IN ...).
StatusCheck == {"open", "in progress", "closed"}

\* routes/tickets.py update_priority, line 348, and app/db.py 103.
allowed_priorities == {"low", "medium", "high"}

\* A ticket handler that runs UPDATE tickets SET column = value WHERE id = t
\* and then starts notify_assigned_user.  rejected: the UPDATE raises
\* (CHECK constraint) and handle_view_exceptions answers with the error
\* flash; nothing is committed and nothing is started.
TicketTrigger(route, t, column, value, rejected, event_type, by) ==
  /\ ~RequestBusy
  /\ IF rejected
       THEN /\ request' = [NewRequest(route, <<>>, {}, FALSE)
                             EXCEPT !.pc = "done", !.result = "error"]
            /\ UNCHANGED <<tickets, call, previous>>
       ELSE /\ tickets' = IF tickets[t] = NoRow THEN tickets
                          ELSE [tickets EXCEPT ![t][column] = value]
            /\ Spawn(t, event_type, by, tickets', users)
            /\ request' = NewRequest(route,
                                     IF tickets[t] = NoRow THEN <<>>
                                     ELSE <<t, column, value>>,
                                     {}, Followed)
  /\ UNCHANGED <<users, threads, settings, smtp>>

\* routes/tickets.py update_status, lines 304-330.
update_status(t, new_status, by) ==
  /\ new_status \in allowed_statuses
  /\ TicketTrigger("update_status", t, "status", new_status,
                   tickets[t] # NoRow /\ new_status \notin StatusCheck,
                   "status_update", by)

\* routes/tickets.py update_priority, lines 336-361.
update_priority(t, new_priority, by) ==
  /\ new_priority \in allowed_priorities
  /\ TicketTrigger("update_priority", t, "priority", new_priority, FALSE,
                   "priority_update", by)

\* routes/tickets.py add_comment, lines 275-298: the INSERT into comments
\* (a table no notification code reads), then the notification.
add_comment(t, by) ==
  /\ ~RequestBusy
  /\ Spawn(t, "new_comment", by, tickets, users)
  /\ request' = NewRequest("add_comment", <<>>, {}, Followed)
  /\ UNCHANGED <<tickets, users, threads, settings, smtp>>

\* routes/profile.py send_test_notifications, lines 157-186: the sender
\* calls for the values just saved, in source order.
TestQueue(u) ==
  (IF TruthyInt(u.notify_pushover) /\ TruthyStr(u.pushover_user_key)
        /\ TruthyStr(u.pushover_api_token)
     THEN <<[fn |-> "pushover",
             to |-> <<u.pushover_user_key, u.pushover_api_token>>,
             title |-> <<"Ticket System Test">>,
             body |-> <<"This is a test notification from your Ticket System profile.">>]>>
     ELSE <<>>)
  \o (IF TruthyInt(u.notify_email) /\ TruthyStr(u.email)
        THEN <<[fn |-> "email", to |-> <<u.email>>,
                title |-> <<"Ticket System Test Notification">>,
                body |-> <<"This is a test email notification from your Ticket System profile.">>]>>
        ELSE <<>>)
  \o (IF TruthyInt(u.notify_apprise) /\ TruthyStr(u.apprise_url)
        THEN <<[fn |-> "apprise", to |-> <<u.apprise_url>>,
                title |-> <<"Ticket System Test">>,
                body |-> <<"This is a test notification via Apprise from your Ticket System profile.">>]>>
        ELSE <<>>)

\* routes/profile.py profile (POST with the test button), lines 48-132: the
\* UPDATE of the user's row, then send_test_notifications.
profile(u, row) ==
  /\ ~RequestBusy
  /\ Len(threads) + Len(TestQueue(row)) <= MaxSends
  /\ users' = [users EXCEPT ![u] = row]
  /\ threads' = threads \o [i \in 1..Len(TestQueue(row)) |->
                              NewThread(TestQueue(row)[i], <<"profile", u>>)]
  /\ request' = NewRequest("profile", <<>>,
                           Len(threads) + 1 .. Len(threads) + Len(TestQueue(row)),
                           FALSE)
  /\ previous' = NoRow
  /\ UNCHANGED <<tickets, call, settings, smtp>>

\* A post of the settings form (fields already stripped).
SettingsForm(server, port, from, username, password, tls) ==
  [smtp_server |-> server, smtp_port |-> port, smtp_from_email |-> from,
   smtp_username |-> username, smtp_password |-> password,
   smtp_use_tls |-> tls]

\* The host emptied, and the from-address emptied (with the host set).
HostAndFromForms ==
  { SettingsForm("", "587", "noreply@example.com", "", "", "1"),
    SettingsForm("localhost", "587", "", "", "", "1") }

\* Another relay with a login and no TLS, a login without TLS dropped
\* again, the port left blank.
RelayForms ==
  { SettingsForm("mx2.example.com", "25", "noreply@example.com", "u", "p", "0"),
    SettingsForm("mx2.example.com", "", "noreply@example.com", "", "", "1") }

\* routes/settings_routes.py system_settings (save_settings), lines 51-118:
\* one UPDATE per key, which changes nothing for a key that has no row; a
\* blank port is stored as '25', a blank password is not stored.
system_settings(form) ==
  /\ settings' =
       [k \in SettingKeys |->
          IF settings[k] = Absent THEN Absent
          ELSE IF k = "smtp_port" /\ form[k] = "" THEN "25"
          ELSE IF k = "smtp_password" /\ form[k] = "" THEN settings[k]
          ELSE form[k]]
  /\ settings' # settings
  /\ UNCHANGED <<tickets, users, call, previous, threads, request, smtp>>

\* wrapped_target, lines 56-66: the thread enters the sender, which runs
\* up to its first network operation.
SenderEnter(i) ==
  /\ threads[i].pc = "start"
  /\ \E ok \in BOOLEAN :
       threads' =
         [threads EXCEPT ![i] =
            CASE @.fn = "email" -> send_email_notification(@, settings, ok)
              [] @.fn = "pushover" -> send_pushover_notification(@)
              [] @.fn = "apprise" -> send_apprise_notification(@)]
  /\ UNCHANGED <<tickets, users, call, previous, settings, request, smtp>>

\* Variant: a sender that is through switches the mail flag of the user
\* who asked for the test off.
SenderFinish_SwitchesFlagOff(i) ==
  /\ threads[i].pc = "io"
  /\ threads' = [threads EXCEPT ![i].pc = "done"]
  /\ users' = [users EXCEPT ![threads[i].origin[2]].notify_email = 0]
  /\ UNCHANGED <<tickets, call, previous, settings, request, smtp>>

\* The network operations of the sender, its logging, and the return into
\* wrapped_target (lines 66-74).
SenderFinish(i) ==
  /\ threads[i].pc = "io"
  /\ \/ /\ threads[i].fn = "email"
        /\ \E k \in 0..Len(MailPlan(threads[i].mail, threads[i])) :
             threads' = [threads EXCEPT ![i] =
                           wrapped_target(send_email_delivery(@, k))]
     \/ /\ threads[i].fn = "pushover"
        /\ \E o \in PostOutcomes :
             threads' = [threads EXCEPT ![i] =
                           wrapped_target(send_pushover_delivery(@, o))]
     \/ /\ threads[i].fn = "apprise"
        /\ \E o \in AppriseOutcomes :
             threads' = [threads EXCEPT ![i] =
                           wrapped_target(send_apprise_delivery(@, o))]
  /\ UNCHANGED <<tickets, users, call, previous, settings, request, smtp>>

\* ---------------------------------------------------- test_smtp_connection

\* Lines 304-308: the locals of test_smtp_connection read from the dict.
SmtpTestLocals(st) ==
  [smtp_server |-> Get(st, "smtp_server", Null),
   smtp_port_str |-> Get(st, "smtp_port", "587"),
   smtp_user |-> Get(st, "smtp_username", ""),
   smtp_password |-> Get(st, "smtp_password", ""),
   smtp_use_tls |-> Get(st, "smtp_use_tls", "0") = "1"]

\* Lines 329-338 and the exit of the `with' block.
SmtpTestPlan(m) ==
  <<NetOp("connect", <<m.smtp_server, m.smtp_port>>), NetOp("ehlo", <<>>)>>
  \o (IF m.smtp_use_tls
        THEN <<NetOp("starttls", <<>>), NetOp("ehlo", <<>>)>> ELSE <<>>)
  \o (IF TruthyStr(m.smtp_user) /\ TruthyStr(m.smtp_password)
        THEN <<NetOp("login", <<m.smtp_user, m.smtp_password>>)>> ELSE <<>>)
  \o <<NetOp("quit", <<>>)>>

\* A call of test_smtp_connection at its first statement.  `settings_read'
\* is the local `settings', `mail' the other locals, `failed' the SMTP
\* operation that raised, `result' what the caller gets: "True", or the
\* exception raised.
NewSmtpTest ==
  [pc |-> "start", settings_read |-> NoRow, mail |-> NoRow, ops |-> <<>>,
   failed |-> Null, log |-> <<>>, result |-> Null]

\* logger.error followed by `raise'.
RaiseFrom(c, line, exception) ==
  [c EXCEPT !.pc = "done", !.log = Append(@, LogRecord("error", line)),
            !.result = exception]

\* The locals at line 316: smtp_port in place of smtp_port_str.
SmtpTestLocalsParsed(m0) ==
  [smtp_server |-> m0.smtp_server, smtp_port |-> ParsePort(m0.smtp_port_str),
   smtp_user |-> m0.smtp_user, smtp_password |-> m0.smtp_password,
   smtp_use_tls |-> m0.smtp_use_tls]

\* Variant: the host check of lines 323-325 is missing.
SmtpTestChecks_NoHostCheck(c, table, ok) ==
  IF ~ok THEN RaiseFrom(c, 301, "ValueError")
  ELSE
    LET st == LoadSettings(table)
        m == SmtpTestLocalsParsed(SmtpTestLocals(st))
        c1 == [c EXCEPT !.settings_read = st, !.mail = m]
    IN IF m.smtp_port = -1 THEN RaiseFrom(c1, 313, "ValueError")
       ELSE [c1 EXCEPT !.pc = "io", !.log = Append(@, LogRecord("info", 328))]

\* test_smtp_connection, lines 296-328: up to the first network operation.
\* table is the settings table when the SELECT runs, ok is FALSE when
\* db_manager.fetchall raises.
SmtpTestChecks(c, table, ok) ==
  IF ~ok THEN RaiseFrom(c, 301, "ValueError")
  ELSE
    LET st == LoadSettings(table)
        m == SmtpTestLocalsParsed(SmtpTestLocals(st))
        c1 == [c EXCEPT !.settings_read = st, !.mail = m]
    IN IF m.smtp_port = -1 THEN RaiseFrom(c1, 313, "ValueError")
       ELSE IF ~TruthyStr(m.smtp_server) THEN RaiseFrom(c1, 324, "ValueError")
       ELSE [c1 EXCEPT !.pc = "io", !.log = Append(@, LogRecord("info", 328))]

\* Variant: a failed login is logged and the test still reports success.
SmtpTestHandshake_LoginIgnored(c, fail_at, auth) ==
  LET plan == SmtpTestPlan(c.mail)
  IN IF fail_at = 0
       THEN [c EXCEPT !.pc = "done", !.ops = plan,
                      !.log = Append(@, LogRecord("info", 339)),
                      !.result = "True"]
     ELSE IF plan[fail_at].op = "login"
       THEN [c EXCEPT !.pc = "done", !.ops = Attempted(plan, fail_at),
                      !.failed = "login",
                      !.log = Append(@, LogRecord("error", 342)),
                      !.result = "True"]
     ELSE [RaiseFrom(c, 345, "RuntimeError")
             EXCEPT !.ops = Attempted(plan, fail_at),
                    !.failed = plan[fail_at].op]

\* test_smtp_connection, lines 329-346.  fail_at = k > 0: the k-th SMTP
\* operation raises; auth: it raises SMTPAuthenticationError.
SmtpTestHandshake(c, fail_at, auth) ==
  LET plan == SmtpTestPlan(c.mail)
  IN IF fail_at = 0
       THEN [c EXCEPT !.pc = "done", !.ops = plan,
                      !.log = Append(@, LogRecord("info", 339)),
                      !.result = "True"]
       ELSE [RaiseFrom(c, IF auth THEN 342 ELSE 345, "RuntimeError")
               EXCEPT !.ops = Attempted(plan, fail_at),
                      !.failed = plan[fail_at].op]

\* A caller invokes test_smtp_connection: lines 296-328.
test_smtp_connection ==
  /\ ~(smtp # NoRow /\ smtp.pc # "done")
  /\ \E ok \in BOOLEAN : smtp' = SmtpTestChecks(NewSmtpTest, settings, ok)
  /\ UNCHANGED <<tickets, users, call, previous, threads, settings, request>>

\* Lines 329-346.
test_smtp_handshake ==
  /\ smtp # NoRow /\ smtp.pc = "io"
  /\ \E k \in 0..Len(SmtpTestPlan(smtp.mail)), auth \in BOOLEAN :
       /\ auth => (k > 0 /\ SmtpTestPlan(smtp.mail)[k].op = "login")
       /\ smtp' = SmtpTestHandshake(smtp, k, auth)
  /\ UNCHANGED <<tickets, users, call, previous, threads, settings, request>>

\* ----------------------------------------------------- the specifications

\* app/db.py ensure_default_settings, lines 197-212: every default is
\* inserted, except a key whose INSERT raised (logged at 211, skipped).
InitSend ==
  /\ tickets = [t \in TicketIds |-> NoRow]
  /\ users = [u \in UserIds |-> DefaultUser(u)]
  /\ call = NoRow
  /\ previous = NoRow
  /\ threads = <<>>
  /\ \E missing \in SUBSET {"smtp_server", "smtp_from_email"} :
       settings = [k \in SettingKeys |->
                     IF k \in missing THEN Absent ELSE DEFAULT_SETTINGS[k]]
  /\ request = NoRow
  /\ smtp = NoRow

\* The rows the profile form posts together with the test button: one
\* channel enabled and configured at a time.
TestProfiles(u) ==
  { UserRow(u, 1, "a@x.io", 0, "", "", 0, ""),
    UserRow(u, 0, "a@x.io", 1, "ukey", "tok", 0, ""),
    UserRow(u, 0, "a@x.io", 0, "", "", 1, "json://h") }

\* The senders, started by the test button of the profile form, while the
\* settings form is saved.
NextSend ==
  \/ \E row \in TestProfiles(1) : profile(1, row)
  \/ \E f \in HostAndFromForms : system_settings(f)
  \/ RunnerReturn
  \/ \E i \in 1..Len(threads) : SenderEnter(i)
  \/ \E i \in 1..Len(threads) : SenderFinish(i)

SpecSend == InitSend /\ [][NextSend]_vars

\* test_smtp_connection, called while the settings form is saved.
NextSmtp ==
  \/ \E f \in HostAndFromForms \cup RelayForms : system_settings(f)
  \/ test_smtp_connection
  \/ test_smtp_handshake

SpecSmtp == InitSend /\ [][NextSmtp]_vars

\* routes/tickets.py update_assigned_to, lines 76-115, as a followed
\* request (the form names an assignee).
update_assigned_to_request(t, assigned_to, by) ==
  /\ TruthyInt(assigned_to)
  /\ TicketTrigger("update_assigned_to", t, "assigned_to", assigned_to, FALSE,
                   "assigned", by)

\* The ticket handlers as followed requests, and the notify_assigned_user
\* threads they start.
NextTrig ==
  \/ \E t \in TicketIds, a \in UserIds, by \in UserIds :
       create_ticket(t, a, by)
  \/ \E t \in TicketIds, a \in UserIds, by \in UserIds :
       update_assigned_to_request(t, a, by)
  \/ \E t \in TicketIds, by \in UserIds :
       \E s \in {"closed", "pending"} : update_status(t, s, by)
  \/ \E t \in TicketIds, by \in UserIds : update_priority(t, "high", by)
  \/ \E t \in TicketIds, by \in UserIds : add_comment(t, by)
  \/ RunnerReturn
  \/ FetchTicket
  \/ FetchUser

SpecTrig == Init /\ [][NextTrig]_vars

\* utils/context_runner.py 80: the threads are daemon threads, which the
\* interpreter does not wait for when the process exits; the ones still
\* running then stop where they are (the process is started again and the
\* handlers go on).
interpreter_exit ==
  /\ \E i \in 1..Len(threads) : threads[i].pc \in {"start", "io"}
  /\ threads' = [i \in 1..Len(threads) |->
                   IF threads[i].pc \in {"start", "io"}
                     THEN [threads[i] EXCEPT !.pc = "killed"]
                   ELSE threads[i]]
  /\ UNCHANGED <<tickets, users, call, previous, settings, request, smtp>>

NextLive == NextSend \/ interpreter_exit

\* A started thread is scheduled by the operating system, and each blocking
\* call of a sender is bounded (sqlite busy timeout, timeout=15 at line 79,
\* timeout=10 at line 116, the socket timeouts of the gateway library): a
\* sender step that can be taken is eventually taken.
SpecSendLive ==
  /\ InitSend
  /\ [][NextLive]_vars
  /\ WF_vars(\E i \in 1..Len(threads) : SenderEnter(i))
  /\ WF_vars(\E i \in 1..Len(threads) : SenderFinish(i))

\* A relay that wants both the upgrade and a login, and one that wants a
\* login only.
LoginForms ==
  { SettingsForm("mx2.example.com", "587", "noreply@example.com", "u", "p", "1"),
    SettingsForm("mx2.example.com", "25", "noreply@example.com", "u", "p", "0") }

\* The mail sender alone, started by the test button of the profile form,
\* under every combination of the TLS flag and the credentials.
NextMail ==
  \/ profile(1, UserRow(1, 1, "a@x.io", 0, "", "", 0, ""))
  \/ \E f \in LoginForms \cup HostAndFromForms : system_settings(f)
  \/ RunnerReturn
  \/ \E i \in 1..Len(threads) : SenderEnter(i)
  \/ \E i \in 1..Len(threads) : SenderFinish(i)

SpecMail == InitSend /\ [][NextMail]_vars

\* The dispatcher and the senders side by side: a ticket created with an
\* assignee, the test button of the profile form, the settings form.
NextFrame ==
  \/ \E t \in TicketIds, a \in UserIds : create_ticket(t, a, 1)
  \/ FetchTicket
  \/ FetchUser
  \/ \E row \in TestProfiles(1) : profile(1, row)
  \/ \E f \in HostAndFromForms : system_settings(f)
  \/ RunnerReturn
  \/ \E i \in 1..Len(threads) : SenderEnter(i)
  \/ \E i \in 1..Len(threads) : SenderFinish(i)

SpecFrame == Init /\ [][NextFrame]_vars

\* ------------------------------------------------- the triggers, traced

\* The notify_assigned_user call a handler starts, together with the
\* handler that started it and the column and value that handler committed
\* before (<<>> when it wrote no column of the ticket).
TracedCall(route, change, ticket_id, event_type, triggering_user_id) ==
  LET d == NewCall(ticket_id, event_type, triggering_user_id)
  IN [ticket_id |-> d.ticket_id, event_type |-> d.event_type,
      triggering_user_id |-> d.triggering_user_id, pc |-> d.pc,
      ticket |-> d.ticket, assigned_user |-> d.assigned_user,
      queued |-> d.queued, log |-> d.log, raised |-> d.raised,
      route |-> route, change |-> change]

\* Variant: the handler starts the dispatcher although its write failed.
Handler_NotifiesAnyway(route, tk, change, notify, t, event_type, by) ==
  /\ tickets' = tk
  /\ call' = IF Followed THEN TracedCall(route, change, t, event_type, by)
             ELSE call
  /\ previous' = NoRow
  /\ UNCHANGED <<users, threads>>
  /\ UNCHANGED sendvars

\* A handler from its write on: the statement is committed (tk is the
\* tickets table it leaves), then, when `notify', the handler calls
\* run_in_app_context(app, notify_assigned_user, t, event_type, by).
Handler(route, tk, change, notify, t, event_type, by) ==
  /\ tickets' = tk
  /\ call' = IF notify /\ Followed
               THEN TracedCall(route, change, t, event_type, by)
             ELSE call
  /\ previous' = NoRow
  /\ UNCHANGED <<users, threads>>
  /\ UNCHANGED sendvars

\* UPDATE tickets SET column = value WHERE id = t, committed.
Updated(t, column, value) ==
  IF tickets[t] = NoRow THEN tickets
  ELSE [tickets EXCEPT ![t][column] = value]

\* What that UPDATE wrote: nothing when no row has the id.
Written(t, column, value) ==
  IF tickets[t] = NoRow THEN <<>> ELSE <<column, value>>

\* routes/tickets.py create_ticket, lines 218-257.
create_ticket_traced(t, assigned_to, by) ==
  /\ tickets[t] = NoRow
  /\ Handler("create_ticket",
             [tickets EXCEPT ![t] = TicketRow(t, assigned_to, "open", "medium")],
             <<"assigned_to", assigned_to>>, TruthyInt(assigned_to),
             t, "assigned_on_creation", by)

\* Variant: the webhook names its event after what it did.
webhook_create_ticket_PassesCreated(t, assigned_to) ==
  /\ tickets[t] = NoRow
  /\ Handler("webhook_create_ticket",
             [tickets EXCEPT ![t] = TicketRow(t, assigned_to, "open", "medium")],
             <<"assigned_to", assigned_to>>, TruthyInt(assigned_to),
             t, "ticket_created", NoId)

\* app/api.py webhook_create_ticket, lines 338-378: the INSERT with the
\* status and priority defaults, then the notification with no triggering
\* user when the payload names an assignee.
webhook_create_ticket(t, assigned_to) ==
  /\ tickets[t] = NoRow
  /\ Handler("webhook_create_ticket",
             [tickets EXCEPT ![t] = TicketRow(t, assigned_to, "open", "medium")],
             <<"assigned_to", assigned_to>>, TruthyInt(assigned_to),
             t, "assigned_on_creation", NoId)

\* routes/tickets.py update_assigned_to, lines 101-115.
update_assigned_to_traced(t, assigned_to, by) ==
  /\ by \in UserIds
  /\ Handler("update_assigned_to", Updated(t, "assigned_to", assigned_to),
             Written(t, "assigned_to", assigned_to), TruthyInt(assigned_to),
             t, "assigned", by)

\* routes/tickets.py update_status, lines 317-330: a status outside the
\* list is answered with a flash, one the CHECK constraint refuses makes the
\* UPDATE raise; neither commits nor notifies.
update_status_traced(t, new_status, by) ==
  /\ by \in UserIds
  /\ LET accepted == /\ new_status \in allowed_statuses
                     /\ tickets[t] # NoRow => new_status \in StatusCheck
     IN Handler("update_status",
                IF accepted THEN Updated(t, "status", new_status) ELSE tickets,
                Written(t, "status", new_status), accepted, t, "status_update", by)

\* routes/tickets.py update_priority, lines 348-361.
update_priority_traced(t, new_priority, by) ==
  /\ by \in UserIds
  /\ LET accepted == new_priority \in allowed_priorities
     IN Handler("update_priority",
                IF accepted THEN Updated(t, "priority", new_priority)
                ELSE tickets,
                Written(t, "priority", new_priority), accepted,
                t, "priority_update", by)

\* routes/tickets.py add_comment, lines 286-298: the INSERT into comments
\* leaves the tickets table as it is; an empty comment is refused.
add_comment_traced(t, content, by) ==
  /\ by \in UserIds
  /\ Handler("add_comment", tickets, <<>>, content # "",
             t, "new_comment", by)

\* app/api.py api_update_ticket after its UPDATE (line 264).  `data' is the
\* JSON body (one field and its value), `before' the assignee the ticket
\* had when the UPDATE ran, `queued' whether line 271 was reached.
ApiRequest(t, data, by, before) ==
  [route |-> "api_update_ticket", ticket_id |-> t, data |-> data, by |-> by,
   before |-> before, pc |-> "after_update", queued |-> FALSE]

ApiBusy == request # NoRow /\ request.pc = "after_update"

\* A body sent to the REST update: one field and its value.
ApiBody(field, value) == [field |-> field, value |-> value]

\* app/api.py api_update_ticket, lines 233-264 and 273-274: 404 for a
\* ticket that does not exist, otherwise the UPDATE; the handler is over
\* unless the body holds a non-null assigned_to.
api_update_ticket(t, data, by) ==
  /\ ~ApiBusy
  /\ tickets[t] # NoRow
  /\ tickets' = Updated(t, data.field, data.value)
  /\ request' =
       LET r == ApiRequest(t, data, by, tickets[t].assigned_to)
       IN IF data.field = "assigned_to" /\ data.value # NoId
            THEN r ELSE [r EXCEPT !.pc = "done"]
  /\ previous' = NoRow
  /\ UNCHANGED <<users, call, threads, settings, smtp>>

\* Variant: the assignee is compared with the one read before the UPDATE.
ApiAssigneeChanged_ReadBefore(req, original_assignee) ==
  req.before # req.data.value

\* app/api.py 268-269: original_assignee is selected after the UPDATE of
\* line 264 and compared with the value just written.
ApiAssigneeChanged(req, original_assignee) ==
  original_assignee # NoRow
    /\ original_assignee.assigned_to # req.data.value

\* app/api.py api_update_ticket, lines 266-274.
api_update_ticket_notify ==
  /\ ApiBusy
  /\ LET changed ==
           ApiAssigneeChanged(request, SelectTicket(request.ticket_id))
     IN /\ call' = IF changed /\ Followed
                     THEN TracedCall("api_update_ticket",
                                     <<"assigned_to", request.data.value>>,
                                     request.ticket_id, "assigned", request.by)
                   ELSE call
        /\ request' = [request EXCEPT !.pc = "done", !.queued = changed]
  /\ previous' = NoRow
  /\ UNCHANGED <<tickets, users, threads, settings, smtp>>

\* The rows the user form stores in this specification: every channel
\* enabled and configured, or the column defaults.
EventProfiles(u) ==
  {UserRow(u, 1, "a@x.io", 1, "ukey", "tok", 1, "json://h"), DefaultUser(u)}

\* The logged-in user of the requests, and the user whose row is edited.
Actors == {1}

Edited == {2}

\* Every event trigger, the user form, and the dispatcher threads.
NextEvents ==
  \/ \E t \in TicketIds, a \in UserIds \cup {NoId}, by \in Actors :
       create_ticket_traced(t, a, by)
  \/ \E t \in TicketIds, a \in UserIds \cup {NoId} :
       webhook_create_ticket(t, a)
  \/ \E t \in TicketIds, a \in UserIds \cup {NoId}, by \in Actors :
       update_assigned_to_traced(t, a, by)
  \/ \E t \in TicketIds, by \in Actors :
       \E s \in {"closed", "in progress", "pending"} :
         update_status_traced(t, s, by)
  \/ \E t \in TicketIds, by \in Actors : update_priority_traced(t, "high", by)
  \/ \E t \in TicketIds, by \in Actors :
       \E content \in {"", "text"} : add_comment_traced(t, content, by)
  \/ \E t \in TicketIds, by \in Actors :
       \E a \in UserIds \cup {NoId} :
         api_update_ticket(t, ApiBody("assigned_to", a), by)
  \/ api_update_ticket_notify
  \/ \E u \in Edited : \E row \in EventProfiles(u) : edit_user(u, row)
  \/ FetchTicket
  \/ FetchUser

SpecEvents == Init /\ [][NextEvents]_vars

\* ----------------------------------------------------------------- claims

Returned == call # NoRow /\ call.pc = "returned"

\* The call loaded the ticket and its assignee, and the assignee is not the
\* triggering user.
PastSelfCheck ==
  /\ Returned
  /\ call.assigned_user # NoRow
  /\ call.triggering_user_id # call.assigned_user.id

\* Number of sender calls of channel ch the call handed to the runner.
Scheduled(ch) ==
  Cardinality({i \in 1..Len(call.queued) : call.queued[i].fn = ch})

\* The event types the specification lists.
RecognisedEvents ==
  {"assigned", "status_update", "priority_update", "new_comment"}

AllChannelsOn(u) ==
  /\ u.notify_pushover = 1 /\ u.pushover_user_key \notin {Null, ""}
  /\ u.pushover_api_token \notin {Null, ""}
  /\ u.notify_email = 1 /\ u.email \notin {Null, ""}
  /\ u.notify_apprise = 1 /\ u.apprise_url \notin {Null, ""}

\* C1: when the triggering user is the ticket's assignee, the call schedules
\* no sender, whatever the event type and the assignee's flags and
\* credentials.
C1_SelfNotificationSchedulesNothing ==
  (Returned /\ call.ticket # NoRow
     /\ call.triggering_user_id = call.ticket.assigned_to)
    => call.queued = <<>>

C1_Witness ==
  /\ Returned
  /\ call.assigned_user # NoRow
  /\ call.triggering_user_id = call.assigned_user.id
  /\ AllChannelsOn(call.assigned_user)
  /\ call.event_type \in RecognisedEvents
  /\ call.queued = <<>>

\* C2: a call on a ticket that has no assignee, or on an id with no ticket,
\* schedules no sender, for every event type and triggering user.
C2_UnassignedSchedulesNothing ==
  (Returned /\ (call.ticket = NoRow \/ call.ticket.assigned_to = NoId))
    => call.queued = <<>>

C2_Witness ==
  /\ Returned
  /\ call.ticket # NoRow
  /\ call.ticket.assigned_to = NoId
  /\ call.event_type \in RecognisedEvents
  /\ call.log = <<LogRecord("info", 191)>>
  /\ call.queued = <<>>

\* C3: for a recognised event on a ticket whose assignee is not the
\* triggering user, exactly one mail sender is scheduled when the assignee
\* has notify_email = 1 and a non-empty email, and none when notify_email = 0.
C3_ExactlyOneMailSender ==
  (PastSelfCheck /\ call.event_type \in RecognisedEvents)
    => /\ (call.assigned_user.notify_email = 1
             /\ call.assigned_user.email \notin {Null, ""})
            => Scheduled("email") = 1
       /\ call.assigned_user.notify_email = 0 => Scheduled("email") = 0

\* C4: a sender is scheduled for a user only if, in the row the call read,
\* the channel's flag is set and every credential the channel needs is
\* non-empty.
C4_ScheduledOnlyIfEnabledAndConfigured ==
  call # NoRow =>
    \A i \in 1..Len(call.queued) :
      /\ call.assigned_user # NoRow
      /\ LET u == call.assigned_user
             s == call.queued[i]
         IN /\ s.fn = "pushover" =>
                 /\ u.notify_pushover = 1
                 /\ u.pushover_user_key \notin {Null, ""}
                 /\ u.pushover_api_token \notin {Null, ""}
            /\ s.fn = "email" =>
                 u.notify_email = 1 /\ u.email \notin {Null, ""}
            /\ s.fn = "apprise" =>
                 u.notify_apprise = 1 /\ u.apprise_url \notin {Null, ""}

\* A call past the self check, on a recognised event, for an assignee whose
\* push flag is set while the API token is missing: nothing of that channel
\* is scheduled.
C4_Witness ==
  /\ PastSelfCheck
  /\ call.event_type \in RecognisedEvents
  /\ call.assigned_user.notify_pushover = 1
  /\ call.assigned_user.pushover_user_key = "ukey"
  /\ call.assigned_user.pushover_api_token = ""
  /\ Scheduled("pushover") = 0

\* C6: no exception leaves notify_assigned_user: a failure while loading the
\* ticket or the assignee or while building the message ends in the logged
\* error of line 273 and a normal return.
C6_NeverRaises ==
  call # NoRow =>
    /\ ~call.raised
    /\ (Returned /\ call.queued = <<>>) => Len(call.log) >= 1

C6_Witness ==
  /\ Returned
  /\ call.assigned_user # NoRow
  /\ call.log = <<LogRecord("error", 273)>>
  /\ ~call.raised

\* C7: for an event type that is not recognised the call logs the warning of
\* the unknown-event branch, schedules nothing and returns normally, even
\* when the assignee has every channel enabled.
C7_UnknownEventWarns ==
  (PastSelfCheck /\ call.event_type \notin KnownEvents)
    => /\ call.log = <<LogRecord("warning", 239)>>
       /\ call.queued = <<>>
       /\ ~call.raised

\* C8: an "assigned" event on ticket N whose assignee has push enabled with
\* both credentials and is not the triggering user schedules exactly one
\* push sender, titled "Ticket #N Has Been Assigned To You".
C8_AssignedPushTitle ==
  (PastSelfCheck /\ call.event_type = "assigned"
     /\ call.assigned_user.notify_pushover = 1
     /\ call.assigned_user.pushover_user_key \notin {Null, ""}
     /\ call.assigned_user.pushover_api_token \notin {Null, ""})
    => /\ Scheduled("pushover") = 1
       /\ \A i \in 1..Len(call.queued) :
            call.queued[i].fn = "pushover" =>
              call.queued[i].title =
                <<"Ticket #", call.ticket_id, " Has Been Assigned To You">>

\* C5: a call schedules at most one sender per channel, and nothing is
\* scheduled again afterwards: sender threads appear only at the step of a
\* call that queues, one per entry of its queue, and the queue of a returned
\* call never grows.
C5_AtMostOncePerChannel ==
  /\ [](call # NoRow => \A ch \in Channels : Scheduled(ch) <= 1)
  /\ [][/\ Len(threads') - Len(threads) =
             (IF call # NoRow /\ call.pc = "fetch_user" /\ call' # NoRow
                THEN Len(call'.queued) ELSE 0)
        /\ (Returned /\ call' # NoRow /\ call'.pc = "returned")
             => call'.queued = call.queued]_vars

\* A call past the self check on a recognised event, for an assignee with
\* every channel enabled: no channel has more than one sender.
C5_Witness ==
  /\ PastSelfCheck
  /\ call.event_type \in RecognisedEvents
  /\ AllChannelsOn(call.assigned_user)
  /\ \A ch \in Channels : Scheduled(ch) <= 1

\* C9: for an assignee with all three channels enabled and configured, the
\* call schedules three senders, one per channel (which then run and fail
\* independently).
C9_ThreeSendersScheduled ==
  (PastSelfCheck /\ call.event_type \in RecognisedEvents
     /\ AllChannelsOn(call.assigned_user))
    => /\ Len(call.queued) = 3
       /\ \A ch \in Channels : Scheduled(ch) = 1

\* The channels whose flag and credentials are set in row u.
Configured(u) ==
  (IF u.notify_pushover = 1 /\ u.pushover_user_key \notin {Null, ""}
        /\ u.pushover_api_token \notin {Null, ""}
     THEN {"pushover"} ELSE {})
  \cup (IF u.notify_email = 1 /\ u.email \notin {Null, ""}
          THEN {"email"} ELSE {})
  \cup (IF u.notify_apprise = 1 /\ u.apprise_url \notin {Null, ""}
          THEN {"apprise"} ELSE {})

ChannelsOf(d) == {d.queued[i].fn : i \in 1..Len(d.queued)}

\* C10: a second call with the arguments of the first, the ticket and user
\* rows unchanged in between, schedules what the first scheduled: each of
\* the two calls schedules the assignee's enabled and configured channels.
C10_RepeatedCallSchedulesAgain ==
  (PastSelfCheck /\ call.event_type \in RecognisedEvents
     /\ previous # NoRow
     /\ previous.ticket = call.ticket
     /\ previous.assigned_user = call.assigned_user)
    => /\ ChannelsOf(previous) = Configured(call.assigned_user)
       /\ ChannelsOf(call) = Configured(call.assigned_user)
       /\ call.queued = previous.queued

\* C11: run_in_app_context returns without waiting for the work it started.
\* A request inside run_in_app_context can always take its return step, and
\* a notify_assigned_user call in flight can always take its next step,
\* whatever the state of the threads started: nothing ever blocks a ticket
\* handler or the dispatcher on background work.
C11_RunnerNeverWaits ==
  /\ RequestBusy => ENABLED RunnerReturn
  /\ (call # NoRow /\ call.pc = "fetch_ticket") => ENABLED FetchTicket
  /\ (call # NoRow /\ call.pc = "fetch_user") => ENABLED FetchUser

\* A status update has been answered while the notify_assigned_user thread
\* it started has not run its first statement.
C11_Witness ==
  /\ request # NoRow
  /\ request.route = "update_status"
  /\ request.pc = "done"
  /\ request.result = "success"
  /\ request.dispatcher
  /\ call # NoRow /\ call.pc = "fetch_ticket"
  /\ call.event_type = "status_update"

\* C12: an exception raised by the function run through run_in_app_context
\* is caught in the background thread and logged (context_runner line 71);
\* it does not leave the thread, and the request that started the thread
\* is answered with success.
C12_ExceptionStaysInThread ==
  /\ \A i \in 1..Len(threads) :
       /\ ~threads[i].uncaught
       /\ threads[i].raised =>
            /\ threads[i].pc = "done"
            /\ threads[i].log # <<>>
            /\ threads[i].log[Len(threads[i].log)] = LogRecord("error", 71)
  /\ (request # NoRow /\ request.pc = "done") => request.result = "success"

\* A sender raised in its thread after the request that started it had been
\* answered.
C12_Witness ==
  /\ request # NoRow /\ request.pc = "done" /\ request.result = "success"
  /\ \E i \in request.started :
       /\ threads[i].raised
       /\ threads[i].log = <<LogRecord("error", 71)>>

\* C13: for every ticket handler that notifies, the committed UPDATE and the
\* success answer stand whatever the dispatcher does afterwards: no step of
\* notify_assigned_user changes the tickets table or the request, and a
\* request answered after its UPDATE was committed is answered with success
\* while the ticket holds the value it wrote.
C13_MutationAndResultStand ==
  /\ [](request # NoRow /\ request.pc = "done" /\ request.mutation # <<>>
          => /\ request.result = "success"
             /\ tickets[request.mutation[1]][request.mutation[2]]
                  = request.mutation[3])
  /\ [][(FetchTicket \/ FetchUser)
          => /\ tickets' = tickets
             /\ request' = request]_vars

\* A priority change was committed and answered with success, and the
\* dispatcher it started ended in its exception handler.
C13_Witness ==
  /\ request # NoRow /\ request.pc = "done" /\ request.result = "success"
  /\ request.route = "update_priority"
  /\ request.mutation = <<1, "priority", "high">>
  /\ tickets[1].priority = "high"
  /\ request.dispatcher
  /\ Returned
  /\ call.event_type = "priority_update"
  /\ call.log = <<LogRecord("error", 273)>>

\* A mail sender that has run its SELECT on the settings table.
MailLoaded(th) == th.fn = "email" /\ th.settings_read # NoRow

\* The sender logged the warning of line 65 and returned without any SMTP
\* operation and without raising.
MailSkipped(th) ==
  /\ th.pc = "done"
  /\ th.ops = <<>>
  /\ th.log # <<>> /\ th.log[Len(th.log)] = LogRecord("warning", 65)
  /\ ~th.raised

\* C14: when smtp_server is absent from the settings the mail sender read,
\* or empty, the sender logs the warning and returns normally without
\* opening an SMTP connection.
C14_UnsetHostSkips ==
  \A i \in 1..Len(threads) :
    (MailLoaded(threads[i])
       /\ threads[i].settings_read["smtp_server"] \in {Absent, ""})
      => MailSkipped(threads[i])

\* A mail sender that read an emptied host while the from-address was set.
C14_Witness ==
  \E i \in 1..Len(threads) :
    /\ MailLoaded(threads[i])
    /\ threads[i].settings_read["smtp_server"] = ""
    /\ threads[i].settings_read["smtp_from_email"] = "noreply@example.com"
    /\ MailSkipped(threads[i])

\* C15: when smtp_from_email is absent from the settings the mail sender
\* read, or empty, the sender logs the warning and returns without
\* attempting an SMTP connection.
C15_UnsetFromSkips ==
  \A i \in 1..Len(threads) :
    (MailLoaded(threads[i])
       /\ threads[i].settings_read["smtp_from_email"] \in {Absent, ""})
      => MailSkipped(threads[i])

\* C15 as amended: an empty smtp_from_email makes the sender log the warning
\* and return without a connection; when the key is absent the sender uses
\* no-reply@example.com as the from-address and skips only if the host is
\* unset.
C15_EmptyFromSkipsAbsentFromDefaults ==
  \A i \in 1..Len(threads) :
    MailLoaded(threads[i]) =>
      /\ threads[i].settings_read["smtp_from_email"] = ""
           => MailSkipped(threads[i])
      /\ threads[i].settings_read["smtp_from_email"] = Absent
           => /\ threads[i].mail.from_email = "no-reply@example.com"
              /\ (threads[i].settings_read["smtp_server"] \notin {Absent, ""}
                    => /\ ~MailSkipped(threads[i])
                       /\ threads[i].pc = "done" =>
                            /\ threads[i].ops # <<>>
                            /\ threads[i].ops[1].op = "connect")

\* A mail sender that found no smtp_from_email key and sent its message
\* from the default address.
C15_Witness ==
  \E i \in 1..Len(threads) :
    /\ MailLoaded(threads[i])
    /\ threads[i].settings_read["smtp_from_email"] = Absent
    /\ threads[i].pc = "done"
    /\ \E j \in 1..Len(threads[i].ops) :
         /\ threads[i].ops[j].op = "send_message"
         /\ threads[i].ops[j].arg[1] = "no-reply@example.com"
    /\ threads[i].log[Len(threads[i].log)] = LogRecord("info", 86)

\* C16: none of the three senders raises to its caller: every sender that
\* has ended returned normally after logging what happened.
C16_SendersNeverRaise ==
  \A i \in 1..Len(threads) :
    /\ ~threads[i].raised
    /\ threads[i].pc = "done" => threads[i].log # <<>>

\* C17: the mail sender's SELECT takes the mail settings as the table holds
\* them at that step, whatever earlier sends read, and the connection it
\* then opens goes to the host it read.
C17_SettingsReadAtSendTime ==
  /\ [][\A i \in 1..Len(threads) :
          (threads[i].fn = "email" /\ threads[i].pc = "start"
             /\ threads'[i].settings_read # NoRow)
            => /\ threads'[i].settings_read = settings
               /\ threads'[i].mail.smtp_server =
                    (IF settings["smtp_server"] = Absent THEN Null
                     ELSE settings["smtp_server"])
               /\ threads'[i].mail.from_email =
                    (IF settings["smtp_from_email"] = Absent
                       THEN "no-reply@example.com"
                       ELSE settings["smtp_from_email"])]_vars
  /\ [](\A i \in 1..Len(threads) :
          (threads[i].fn = "email" /\ threads[i].ops # <<>>)
            => threads[i].ops[1] =
                 NetOp("connect", <<threads[i].settings_read["smtp_server"],
                                    threads[i].mail.smtp_port>>))

\* Two mail sends with the host emptied in between: the first connected to
\* the host it read, the second read the empty host and skipped.
C17_Witness ==
  \E i, j \in 1..Len(threads) :
    /\ i < j
    /\ MailLoaded(threads[i]) /\ MailLoaded(threads[j])
    /\ threads[i].settings_read["smtp_server"] = "localhost"
    /\ threads[i].ops # <<>>
    /\ threads[i].ops[1].arg[1] = "localhost"
    /\ threads[j].settings_read["smtp_server"] = ""
    /\ MailSkipped(threads[j])

\* C18: after scheduling, no background sender reads Settings, User or
\* Ticket records.
C18_SendersReadNothing ==
  \A i \in 1..Len(threads) : threads[i].reads = {}

\* C18 as amended: no background sender reads User or Ticket records, and
\* the recipient, subject and body a sender uses are the arguments it was
\* scheduled with; the mail sender, and only it, reads the Settings records,
\* in its own thread when it runs.
C18_SendersReadOnlySettings ==
  /\ [](\A i \in 1..Len(threads) :
          /\ threads[i].reads \subseteq {"settings"}
          /\ threads[i].fn # "email" => threads[i].reads = {}
          /\ MailLoaded(threads[i]) => threads[i].reads = {"settings"}
          /\ \A j \in 1..Len(threads[i].ops) :
               threads[i].ops[j].op = "send_message"
                 => /\ threads[i].ops[j].arg[2] = threads[i].args.to[1]
                    /\ threads[i].ops[j].arg[3] = threads[i].args.title
                    /\ threads[i].ops[j].arg[4] = threads[i].args.body)
  /\ [][\A i \in 1..Len(threads) : threads'[i].args = threads[i].args]_vars

\* A mail sender selected from the settings table in its own thread, found
\* the host emptied and sent nothing, after an earlier one had connected.
C18_Witness ==
  \E i \in 1..Len(threads) :
    /\ MailLoaded(threads[i])
    /\ threads[i].reads = {"settings"}
    /\ threads[i].settings_read["smtp_server"] = ""
    /\ MailSkipped(threads[i])
    /\ \E j \in 1..Len(threads) :
         /\ j < i
         /\ threads[j].fn = "email"
         /\ threads[j].ops # <<>>

\* The names of the operations in a sequence of network operations.
OpNames(ops) == {ops[j].op : j \in 1..Len(ops)}

\* C19: whenever smtp_server is absent from the settings table or empty, a
\* call of test_smtp_connection raises ValueError and performs no SMTP
\* operation.
C19_UnsetHostRaisesValueError ==
  [][((smtp = NoRow \/ smtp.pc = "done") /\ smtp' # smtp
        /\ settings["smtp_server"] \in {Absent, ""})
       => /\ smtp'.pc = "done"
          /\ smtp'.result = "ValueError"
          /\ smtp'.ops = <<>>]_vars

\* A call that read an emptied host raised ValueError from the host check.
C19_Witness ==
  /\ smtp # NoRow /\ smtp.pc = "done"
  /\ smtp.settings_read # NoRow
  /\ smtp.settings_read["smtp_server"] = ""
  /\ smtp.result = "ValueError"
  /\ smtp.log = <<LogRecord("error", 324)>>
  /\ smtp.ops = <<>>

\* C20: test_smtp_connection returns True only after connect, STARTTLS when
\* the TLS flag is "1" and login when username and password are both set
\* have all succeeded; a failure of connect, STARTTLS or login makes it
\* raise RuntimeError; and it never sends a message.
C20_TrueOnlyAfterFullHandshake ==
  (smtp # NoRow /\ smtp.settings_read # NoRow) =>
    LET st == smtp.settings_read
        tls == st["smtp_use_tls"] = "1"
        login == st["smtp_username"] \notin {Absent, ""}
                   /\ st["smtp_password"] \notin {Absent, ""}
    IN /\ smtp.result = "True" =>
            /\ smtp.pc = "done"
            /\ smtp.failed = Null
            /\ "connect" \in OpNames(smtp.ops)
            /\ tls => "starttls" \in OpNames(smtp.ops)
            /\ login => "login" \in OpNames(smtp.ops)
       /\ smtp.failed \in {"connect", "starttls", "login"}
            => smtp.result = "RuntimeError"
       /\ OpNames(smtp.ops) \cap {"send_message", "sendmail", "mail", "data"} = {}
       /\ ~tls => "starttls" \notin OpNames(smtp.ops)
       /\ ~login => "login" \notin OpNames(smtp.ops)

\* A test against the relay with a username and a password returned True
\* after connect and login.
C20_Witness ==
  /\ smtp # NoRow /\ smtp.pc = "done"
  /\ smtp.result = "True"
  /\ smtp.settings_read["smtp_username"] = "u"
  /\ smtp.settings_read["smtp_password"] = "p"
  /\ "login" \in OpNames(smtp.ops)
  /\ smtp.ops[1] = NetOp("connect", <<"mx2.example.com", 25>>)

\* The threads started for the event the call handles: the one the handler
\* started for notify_assigned_user, then one per sender call queued.
EventThreads(d) ==
  <<"notify_assigned_user">> \o [i \in 1..Len(d.queued) |-> d.queued[i].fn]

\* The channels the event of call d is due on: those enabled and configured
\* for the assignee, none when there is no assignee or the assignee is the
\* triggering user.
ChannelsDue(d) ==
  IF d.assigned_user = NoRow
       \/ SelfNotification(d.triggering_user_id, d.assigned_user.id)
    THEN {}
  ELSE Configured(d.assigned_user)

\* C21: a ticket event starts exactly one background thread per enabled and
\* configured channel of the assignee and no other thread, hence at most
\* three.
C21_OneThreadPerDueChannelOnly ==
  (Returned /\ call.event_type \in KnownEvents)
    => /\ Len(EventThreads(call)) = Cardinality(ChannelsDue(call))
       /\ \A i \in 1..Len(EventThreads(call)) :
            EventThreads(call)[i] \in ChannelsDue(call)
       /\ Len(EventThreads(call)) <= 3

\* The event type each trigger passes to the dispatcher.
EventOf(route) ==
  CASE route \in {"create_ticket", "webhook_create_ticket"} ->
         "assigned_on_creation"
    [] route \in {"update_assigned_to", "api_update_ticket"} -> "assigned"
    [] route = "update_status" -> "status_update"
    [] route = "update_priority" -> "priority_update"
    [] route = "add_comment" -> "new_comment"

\* C22: every dispatcher call made by an event trigger passes one of the
\* event types assigned, status_update, priority_update, new_comment.
C22_TriggersPassListedEvents ==
  call # NoRow => call.event_type \in RecognisedEvents

\* C22, amended: every dispatcher call made by an event trigger passes one
\* of assigned, assigned_on_creation, status_update, priority_update,
\* new_comment; assigned_on_creation is what the two triggers that create a
\* ticket pass, and every value passed is one the dispatcher has a template
\* for.
C22_TriggersPassKnownEvents ==
  call # NoRow =>
    /\ call.event_type \in RecognisedEvents \cup {"assigned_on_creation"}
    /\ call.event_type = EventOf(call.route)
    /\ call.event_type \in KnownEvents
    /\ Subject(call.event_type, call.ticket_id) # <<>>

\* The webhook created a ticket with an assignee: its dispatcher call
\* carries assigned_on_creation and no triggering user.
C22_Witness ==
  /\ call # NoRow
  /\ call.route = "webhook_create_ticket"
  /\ call.event_type = "assigned_on_creation"
  /\ call.triggering_user_id = NoId
  /\ call.ticket # NoRow

\* A step that starts the followed notify_assigned_user thread.
DispatcherStarts == call' # call /\ call' # NoRow /\ call'.pc = "fetch_ticket"

Tables == <<tickets, users, settings>>

\* C24: the dispatcher and the three senders never modify the tickets, users
\* or settings tables: no step of notify_assigned_user or of a sender thread
\* changes a table, and every step that changes one is a step of a handler
\* (ticket creation, profile form, settings form).
C24_TablesWrittenByRoutesOnly ==
  [][/\ (FetchTicket \/ FetchUser
           \/ \E i \in 1..Len(threads) : SenderEnter(i) \/ SenderFinish(i))
          => Tables' = Tables
     /\ Tables' # Tables
          => \/ \E t \in TicketIds, a \in UserIds : create_ticket(t, a, 1)
             \/ \E row \in TestProfiles(1) : profile(1, row)
             \/ \E f \in HostAndFromForms : system_settings(f)]_vars

\* A dispatch has returned and a sender has ended, and the tables hold what
\* the handlers wrote: the ticket as created, the profile as posted, the
\* settings as saved.
C24_Witness ==
  /\ Returned
  /\ call.assigned_user # NoRow
  /\ tickets[1] = TicketRow(1, 2, "open", "medium")
  /\ \E i \in 1..Len(threads) :
       threads[i].pc = "done" /\ threads[i].fn = "email" /\ threads[i].ops # <<>>
  /\ users[1] = UserRow(1, 1, "a@x.io", 0, "", "", 0, "")
  /\ settings.smtp_from_email = ""

\* The sender thread at position i has its outcome: delivered, or failed
\* and logged.
Outcome(i) ==
  /\ Len(threads) >= i
  /\ threads[i].pc = "done"
  /\ threads[i].log # <<>>

\* C25: every sender that has been scheduled eventually reaches a terminal
\* outcome (delivered or failed and logged); nothing cancels or abandons a
\* scheduled send and none stays in flight forever.
C25_EveryScheduledSendEnds ==
  /\ \A i \in 1..MaxSends : (Len(threads) >= i) ~> Outcome(i)
  /\ [](\A i \in 1..Len(threads) : threads[i].pc # "killed")

\* C25, amended: while the process keeps running, every sender that has
\* been scheduled eventually reaches a terminal outcome, and no code cancels
\* a send; the threads being daemon threads, a send still in flight when
\* the process exits is abandoned without an outcome, and that is the only
\* way a scheduled send ends without one.
C25_EveryScheduledSendEndsUnlessExit ==
  /\ \A i \in 1..MaxSends :
       (Len(threads) >= i)
         ~> (Outcome(i) \/ (Len(threads) >= i /\ threads[i].pc = "killed"))
  /\ [][/\ Len(threads') >= Len(threads)
        /\ \A i \in 1..Len(threads) :
             /\ threads[i].pc = "done" => threads'[i] = threads[i]
             /\ (threads'[i].pc = "killed" /\ threads[i].pc # "killed")
                  => interpreter_exit
             /\ threads[i].pc = "killed" => threads'[i] = threads[i]]_vars

\* A gateway send that failed and was logged (notify returned False), and
\* a mail send cut short by the exit of the process.
C25_Witness ==
  \E i, j \in 1..Len(threads) :
    /\ threads[i].fn = "apprise"
    /\ Outcome(i)
    /\ threads[i].log[Len(threads[i].log)] = LogRecord("warning", 156)
    /\ threads[j].fn = "email"
    /\ threads[j].pc = "killed"

\* The SMTP steps the claim lists for the settings a mail sender read.
StepsFor(st) ==
  <<"connect">>
  \o (IF st.smtp_use_tls = "1" THEN <<"starttls">> ELSE <<>>)
  \o (IF st.smtp_username \notin {"", Absent}
         /\ st.smtp_password \notin {"", Absent}
        THEN <<"login">> ELSE <<>>)
  \o <<"send_message">>

\* The operations of a thread by name, in the order they were attempted.
OpSeq(ops) == [k \in 1..Len(ops) |-> ops[k].op]

\* s is a non-empty initial part of t.
IsPrefix(s, t) ==
  /\ Len(s) >= 1
  /\ Len(s) <= Len(t)
  /\ \A k \in 1..Len(s) : s[k] = t[k]

\* The positions of the send_message operations of thread th that were
\* carried out (the last operation of a failed send is the one that raised).
SentAt(th) ==
  {k \in 1..Len(th.ops) :
     /\ th.ops[k].op = "send_message"
     /\ k < Len(th.ops) \/ th.log[Len(th.log)] = LogRecord("info", 86)}

\* C26: with host and from-address set, the SMTP steps of the mail sender
\* come in the order connect, STARTTLS, login, send_message, STARTTLS exactly
\* when smtp_use_tls is "1", login exactly when user name and password are
\* both non-empty; one message, to the single recipient, is sent, and only
\* when every earlier step succeeded.
C26_SmtpStepOrder ==
  \A i \in 1..Len(threads) :
    LET th == threads[i]
        steps == StepsFor(th.settings_read)
    IN (th.fn = "email" /\ th.pc = "done" /\ th.settings_read # NoRow
          /\ th.settings_read.smtp_server \notin {"", Absent}
          /\ th.settings_read.smtp_from_email # "")
         => /\ IsPrefix(OpSeq(th.ops), steps \o <<"quit">>)
            /\ Cardinality(SentAt(th)) <= 1
            /\ \A k \in SentAt(th) :
                 /\ SubSeq(OpSeq(th.ops), 1, k) = steps
                 /\ th.ops[k].arg[2] = th.args.to[1]
            /\ th.log[Len(th.log)] = LogRecord("info", 86)
                 => OpSeq(th.ops) = steps \o <<"quit">>

\* Two sends that went through: one upgraded the channel and then logged
\* in, the other logged in on a plain channel.
C26_Witness ==
  \E i, j \in 1..Len(threads) :
    /\ OpSeq(threads[i].ops)
         = <<"connect", "starttls", "login", "send_message", "quit">>
    /\ threads[i].log[Len(threads[i].log)] = LogRecord("info", 86)
    /\ threads[i].ops[4].arg[2] = "a@x.io"
    /\ OpSeq(threads[j].ops) = <<"connect", "login", "send_message", "quit">>
    /\ threads[j].log[Len(threads[j].log)] = LogRecord("info", 86)

\* The ticket column a template quotes (lines 229-234).
QuotedColumn(event_type) ==
  IF event_type = "status_update" THEN "status" ELSE "priority"

C29_ApiQueuesIffAssigneeChanged ==
  (/\ request # NoRow
   /\ request.route = "api_update_ticket"
   /\ request.pc = "done")
    => (request.queued
          <=> /\ request.data.field = "assigned_to"
              /\ request.data.value # NoId
              /\ request.before # request.data.value)

\* The call as it stood before line 195, had user w triggered it.
BeforeUserFetch(d, w) ==
  [TracedCall(d.route, d.change, d.ticket_id, d.event_type, w)
     EXCEPT !.ticket = d.ticket, !.pc = "fetch_user"]

\* C30: a dispatch without a triggering user is never taken for a
\* self-notification, and ends as the same dispatch triggered by a user
\* other than the assignee ends.
C30_NullTriggerIsNotSelf ==
  (/\ Returned
   /\ call.triggering_user_id = NoId
   /\ call.assigned_user # NoRow)
    => /\ ~SelfNotification(call.triggering_user_id, call.assigned_user.id)
       /\ \A k \in 1..Len(call.log) : call.log[k] # LogRecord("info", 214)
       /\ \A w \in UserIds \ {call.assigned_user.id} :
            AfterUserFetch(BeforeUserFetch(call, w), call.assigned_user, TRUE)
              = [call EXCEPT !.triggering_user_id = w]

\* The webhook's dispatch has returned for an assignee with every channel
\* enabled and configured.
C30_Witness ==
  /\ Returned
  /\ call.route = "webhook_create_ticket"
  /\ call.triggering_user_id = NoId
  /\ call.assigned_user # NoRow
  /\ \A ch \in Channels : ChannelEnabled(ch, call.assigned_user)

====
